---- MODULE Spec2Model ----
(***************************************************************************)
(* Model of src/src/zarr_to_mrc.py: the slab planner slice_along_z_dim,    *)
(* the metadata builder generate_multiscales_metadata and the streaming    *)
(* copier store_mrc_to_zarr.                                               *)
(*                                                                         *)
(* Three specifications share the module:                                  *)
(*   PlanSpec  - slice_along_z_dim applied to bounded (shape, step) inputs *)
(*   BuildSpec - generate_multiscales_metadata applied to bounded inputs   *)
(*   Spec      - successive runs of store_mrc_to_zarr on a destination     *)
(*               that may or may not exist beforehand                      *)
(*                                                                         *)
(* Conventions: Python's 0-based indices are kept for coordinates, a       *)
(* Python slice(a, b) is the record [start |-> a, stop |-> b], a Python    *)
(* list is a TLA+ sequence, a dict is a record / function on its keys.     *)
(* Floats that the code only passes through (scale, translation) are       *)
(* written as the integers of the same value (1 stands for 1.0).           *)
(***************************************************************************)
EXTENDS Integers, Sequences, FiniteSets, TLC

VARIABLES
    \* ---- slice_along_z_dim called on its own (PlanSpec)
    planShape,      \* arr_shape argument
    planStep,       \* step argument
    planPc,         \* "call" | "returned" | "raised"
    planResult,     \* the returned list, or the exception raised
    \* ---- generate_multiscales_metadata called on its own (BuildSpec)
    bName, bScale, bTrans, bUnits, bAxes,   \* the five arguments
    bPc,            \* "call" | "returned" | "raised"
    bResult,        \* the returned dict
    \* ---- store_mrc_to_zarr (Spec)
    pc,             \* "ensure" | "plan" | "copy" | "done" | "failed"
    err,            \* "none" | "TypeError" | "IOFailure"
    srcShape,       \* large_mrc.data.shape
    srcDtype,       \* large_mrc.data.dtype
    rootExists,     \* the group at dest_path exists
    attrs,          \* z_root.attrs: function from attribute keys to values
    hasArr,         \* dataset 's0' exists under the root
    arrShape,       \* z_arr.shape
    arrDtype,       \* z_arr.dtype
    arrChunks,      \* z_arr.chunks
    arrData,        \* z_arr contents: function from coordinates to values
    slices,         \* local variable slices
    idx,            \* position of the for loop in slices (1-based)
    log,            \* history of this run's writes to the destination
    pre             \* snapshot of the destination when this run began

planVars  == <<planShape, planStep, planPc, planResult>>
buildVars == <<bName, bScale, bTrans, bUnits, bAxes, bPc, bResult>>
srcVars   == <<srcShape, srcDtype>>
arrVars   == <<hasArr, arrShape, arrDtype, arrChunks, arrData>>
copyVars  == <<pc, err, srcVars, rootExists, attrs, arrVars, slices, idx, log, pre>>
vars      == <<planVars, buildVars, copyVars>>

Min(a, b) == IF a < b THEN a ELSE b

(***************************************************************************)
(* Program constants                                                       *)
(***************************************************************************)
ChunkEdge == 128
ds_name == "s0"

(***************************************************************************)
(* Bounds of the model                                                     *)
(***************************************************************************)
MaxPlanExtent == 12   \* PlanSpec: extents 0 .. MaxPlanExtent
MaxPlanStep == 10     \* PlanSpec: steps   -MaxNegStep .. MaxPlanStep
MaxNegStep == 3
MinLen == 2           \* BuildSpec: argument lists of length
MaxLen == 3           \*            MinLen .. MaxLen
MaxSmallExtent == 3   \* Spec: axis-0 extents 1 .. MaxSmallExtent, and
                      \*       ChunkEdge and ChunkEdge + 1
MaxSide == 2          \* Spec: axis 1 has extent 1 .. MaxSide, axis 2 MaxSide
MaxChunkDiv == 2      \* Spec: a pre-existing array has chunk edge
                      \*       ChunkEdge \div d for d in 1 .. MaxChunkDiv,
MaxSmallChunk == 2    \*       or, a short one, 1 .. MaxSmallChunk


(***************************************************************************)
(* slice_along_z_dim (lines 10-27)                                         *)
(***************************************************************************)
Slice(a, b) == [start |-> a, stop |-> b]

\* Whether Python's range(0, stop, step), step # 0, still yields sl.
InRange(sl, stop, step) == IF step > 0 THEN sl < stop ELSE sl > stop

\* A loop body that never clips the last slab to z_len.
SlabAtUnclipped(sl, z_len, step) == Slice(sl, sl + step)

\* A loop body that clips one row short of z_len.
SlabAtShort(sl, z_len, step) ==
    IF sl + step < z_len THEN Slice(sl, sl + step) ELSE Slice(sl, z_len - 1)

\* Body of the for loop, lines 23-26: the slice appended for one sl.
SlabAt(sl, z_len, step) ==
    IF sl + step < z_len THEN Slice(sl, sl + step) ELSE Slice(sl, z_len)

\* The for loop of lines 22-26, from loop variable sl on, acc being the
\* list built so far.
RECURSIVE SliceLoop(_, _, _, _)
SliceLoop(sl, z_len, step, acc) ==
    IF InRange(sl, z_len, step)
    THEN SliceLoop(sl + step, z_len, step, Append(acc, SlabAt(sl, z_len, step)))
    ELSE acc

\* A planner that validates its arguments before planning.
slice_along_z_dim_validating(arr_shape, step) ==
    IF arr_shape[1] <= 0 \/ step <= 0
    THEN [raised |-> "ValueError"]
    ELSE [raised |-> "none", value |-> SliceLoop(0, arr_shape[1], step, <<>>)]

\* slice_along_z_dim(arr_shape, step). range() raises ValueError for a
\* zero step (line 22); otherwise the list is returned (line 27).
slice_along_z_dim(arr_shape, step) ==
    IF step = 0
    THEN [raised |-> "ValueError"]
    ELSE [raised |-> "none", value |-> SliceLoop(0, arr_shape[1], step, <<>>)]

\* A shape has no negative entry; a step is any integer.
PlanExtents == 0 .. MaxPlanExtent
PlanSteps   == (0 - MaxNegStep) .. MaxPlanStep

PlanIdle ==
    /\ planShape = <<0, 1, 1>> /\ planStep = 1
    /\ planPc = "idle" /\ planResult = <<>>

\* One call of slice_along_z_dim, returning or raising.
PlanCall ==
    /\ planPc = "call"
    /\ LET r == slice_along_z_dim(planShape, planStep) IN
         IF r.raised = "none"
         THEN planPc' = "returned" /\ planResult' = r.value
         ELSE planPc' = "raised" /\ planResult' = r.raised
    /\ UNCHANGED <<planShape, planStep, buildVars, copyVars>>

(***************************************************************************)
(* generate_multiscales_metadata (lines 29-67)                             *)
(***************************************************************************)
\* Python's zip(axes, units), lines 48-50: as long as the shorter list.
AxesOf(axes, units) ==
    [i \in 1 .. Min(Len(axes), Len(units)) |->
        [name |-> axes[i], type |-> "space", unit |-> units[i]]]

\* The multiscales entry built by lines 47-65.
Multiscale(name, voxel_size, translation, units, axes) ==
    [axes |-> AxesOf(axes, units),
     coordinateTransformations |-> << [scale |-> <<1, 1, 1>>, type |-> "scale"] >>,
     datasets |-> <<
        [coordinateTransformations |-> <<
            [scale |-> voxel_size, type |-> "scale"],
            [translation |-> translation, type |-> "translation"] >>,
         path |-> name] >>,
     name |-> "",
     version |-> "0.4"]

\* A builder that pairs every axis with the first unit.
generate_multiscales_metadata_firstunit(name, voxel_size, translation, units, axes) ==
    [raised |-> "none",
     value |-> [multiscales |-> <<
        [Multiscale(name, voxel_size, translation, units, axes) EXCEPT
            !.axes = [i \in DOMAIN @ |-> [@[i] EXCEPT !.unit = units[1]]]] >>]]

\* generate_multiscales_metadata(ds_name, voxel_size, translation, units,
\* axes): never raises on lists, returns z_attrs (line 67).
generate_multiscales_metadata(name, voxel_size, translation, units, axes) ==
    [raised |-> "none",
     value |-> [multiscales |-> <<
        Multiscale(name, voxel_size, translation, units, axes) >>]]

\* All sequences over S of length m .. n.
SeqsOf(S, m, n) == UNION {[1 .. k -> S] : k \in m .. n}

DatasetNames == {"s0", "s1"}
AxisNames  == {"z", "y"}
UnitNames  == {"nanometer", "nm"}
ScaleVals  == {1, 4}
TransVals  == {0}

BuildIdle ==
    /\ bName = ds_name /\ bScale = <<>> /\ bTrans = <<>>
    /\ bUnits = <<>> /\ bAxes = <<>>
    /\ bPc = "idle" /\ bResult = <<>>

\* One call of generate_multiscales_metadata, returning or raising.
BuildCall ==
    /\ bPc = "call"
    /\ LET r == generate_multiscales_metadata(bName, bScale, bTrans, bUnits, bAxes) IN
         IF r.raised = "none"
         THEN bPc' = "returned" /\ bResult' = r.value
         ELSE bPc' = "raised" /\ bResult' = r.raised
    /\ UNCHANGED <<bName, bScale, bTrans, bUnits, bAxes, planVars, copyVars>>

(***************************************************************************)
(* Element types, values and arrays                                        *)
(***************************************************************************)
\* Element types an MRC file gives the source (modes 0, 1, 6), and those a
\* pre-existing destination array may have.
SrcDtypes == {"int8", "int16", "uint16"}
ArrDtypes == SrcDtypes \cup {"float32"}

DtMin(dt) == CASE dt = "int8"   -> 0 - 2 ^ 7
               [] dt = "int16"  -> 0 - 2 ^ 15
               [] dt = "uint16" -> 0
               [] OTHER         -> 0 - 2 ^ 24
DtMax(dt) == CASE dt = "int8"   -> 2 ^ 7 - 1
               [] dt = "int16"  -> 2 ^ 15 - 1
               [] dt = "uint16" -> 2 ^ 16 - 1
               [] OTHER         -> 2 ^ 24
DtSpan(dt) == DtMax(dt) - DtMin(dt) + 1

\* numpy's conversion of an integer v on assignment into an array of
\* element type dt: integers wrap to the width; float32 holds every integer
\* of magnitude up to 2^24 exactly and rounds the others to even.
Cast(v, dt) ==
    IF dt = "float32"
    THEN IF DtMin(dt) <= v /\ v <= DtMax(dt) THEN v ELSE 2 * (v \div 2)
    ELSE DtMin(dt) + ((v - DtMin(dt)) % DtSpan(dt))

\* numpy.can_cast(from, to) under the default 'safe' rule.
CanCast(from, to) ==
    \/ from = to
    \/ to = "float32"
    \/ from = "int8" /\ to = "int16"

Coords(shape) ==
    (0 .. shape[1] - 1) \X (0 .. shape[2] - 1) \X (0 .. shape[3] - 1)

\* Position of coordinate c in the C-ordered volume of the given shape.
Lin(shape, c) == (c[1] * shape[2] + c[2]) * shape[3] + c[3]

\* Contents of the source volume: values of its element type that differ
\* from cell to cell and reach both ends of the type's range.
SrcData(c) ==
    LET n == Lin(srcShape, c) IN
    IF n % 2 = 0
    THEN DtMin(srcDtype) + ((n \div 2) % DtSpan(srcDtype))
    ELSE DtMax(srcDtype) - ((n \div 2) % DtSpan(srcDtype))

\* Contents of an array found at the destination before the first run.
OldData(shape, c) == 1 + (Lin(shape, c) % 2)

\* a[sl] on an n-row array, for a slice with bounds >= 0: numpy clips the
\* bounds to n and selects the rows RowLo .. RowHi - 1.
RowLo(sl, n) == Min(sl.start, n)
RowHi(sl, n) == Min(sl.stop, n)
InRows(sl, n, i) == RowLo(sl, n) <= i /\ i < RowHi(sl, n)
NumRows(sl, n) == IF RowHi(sl, n) > RowLo(sl, n) THEN RowHi(sl, n) - RowLo(sl, n) ELSE 0

\* large_mrc.data[sl] (line 100): the buffer read, indexed from its own 0.
ReadSlab(sl) ==
    [b \in (0 .. NumRows(sl, srcShape[1]) - 1)
              \X (0 .. srcShape[2] - 1) \X (0 .. srcShape[3] - 1)
        |-> SrcData(<<RowLo(sl, srcShape[1]) + b[1], b[2], b[3]>>)]

\* A write that lands one row late.
WriteSlabShifted(data, dt, shape, sl, buf) ==
    [c \in DOMAIN data |->
        IF InRows(sl, shape[1], c[1]) /\ c[1] > RowLo(sl, shape[1])
        THEN Cast(buf[<<c[1] - RowLo(sl, shape[1]) - 1, c[2], c[3]>>], dt)
        ELSE data[c]]

\* z_arr[sl] = buf (line 100): the array's contents after the assignment.
WriteSlab(data, dt, shape, sl, buf) ==
    [c \in DOMAIN data |->
        IF InRows(sl, shape[1], c[1])
        THEN Cast(buf[<<c[1] - RowLo(sl, shape[1]), c[2], c[3]>>], dt)
        ELSE data[c]]

(***************************************************************************)
(* store_mrc_to_zarr (lines 71-106)                                        *)
(***************************************************************************)
NoAttrs == [k \in {} |-> 0]
NoData  == [c \in {} |-> 0]

\* The dtype check of require_dataset with exact=False, its default.
DtypeOkAny(dtype, a_dtype) == TRUE
DtypeOk(dtype, a_dtype) == CanCast(dtype, a_dtype)

\* A creation that sizes the chunks to the array.
NewChunksFitted(shape) == [i \in 1 .. Len(shape) |-> Min(ChunkEdge, shape[i])]

\* chunks=(128,)*large_mrc.data.ndim (line 94).
NewChunks(shape) == [i \in 1 .. Len(shape) |-> ChunkEdge]

\* z_root.require_dataset(name='s0', shape, chunks, dtype, compressor)
\* (lines 91-96). An existing array is returned as it is when its shape is
\* the one asked for and the dtype asked for can be cast to its dtype, and
\* TypeError is raised otherwise; the chunks and the compressor asked for
\* are used only when the array is created, zero-filled.
require_dataset(shape, dtype) ==
    IF hasArr
    THEN IF shape # arrShape \/ ~DtypeOk(dtype, arrDtype)
         THEN [raised |-> "TypeError"]
         ELSE [raised |-> "none", shape |-> arrShape, dtype |-> arrDtype,
               chunks |-> arrChunks, data |-> arrData]
    ELSE [raised |-> "none", shape |-> shape, dtype |-> dtype,
          chunks |-> NewChunks(shape), data |-> [c \in Coords(shape) |-> 0]]

\* The step given to slice_along_z_dim at line 98: z_arr.chunks[0].
SlabStepFixed(chunks) == ChunkEdge
SlabStep(chunks) == chunks[1]

\* What the run remembers of the destination as it found it.
Snapshot ==
    [hasArr |-> hasArr, attrs |-> attrs, arrData |-> arrData,
     arrDtype |-> arrDtype, arrChunks |-> arrChunks]

\* Lines 86-96: open the source (taken to be readable) and the root group
\* in mode 'a', which creates the group when it is missing, then require
\* the dataset.
EnsureDestination ==
    /\ pc = "ensure"
    /\ rootExists' = TRUE
    /\ LET r == require_dataset(srcShape, srcDtype) IN
         IF r.raised = "none"
         THEN /\ hasArr' = TRUE
              /\ arrShape' = r.shape /\ arrDtype' = r.dtype
              /\ arrChunks' = r.chunks /\ arrData' = r.data
              /\ pc' = "plan" /\ err' = err
         ELSE /\ pc' = "failed" /\ err' = r.raised
              /\ UNCHANGED arrVars
    /\ UNCHANGED <<srcVars, attrs, slices, idx, log, pre, planVars, buildVars>>

\* Line 98: plan the slabs from the source shape and the array's chunks.
Plan ==
    /\ pc = "plan"
    /\ LET r == slice_along_z_dim(srcShape, SlabStep(arrChunks)) IN
         IF r.raised = "none"
         THEN slices' = r.value /\ idx' = 1 /\ pc' = "copy" /\ err' = err
         ELSE pc' = "failed" /\ err' = r.raised /\ UNCHANGED <<slices, idx>>
    /\ UNCHANGED <<srcVars, rootExists, attrs, arrVars, log, pre,
                   planVars, buildVars>>

\* A loop that is left one slab early.
LoopOverEarly(i, sls) == i >= Len(sls)

\* The for loop of line 99 has gone through the whole list.
LoopOver(i, sls) == i > Len(sls)

\* Lines 99-101: one iteration of the copy loop.
CopySlab ==
    /\ pc = "copy" /\ idx <= Len(slices) /\ ~LoopOver(idx, slices)
    /\ LET sl == slices[idx] IN
         /\ arrData' = WriteSlab(arrData, arrDtype, arrShape, sl, ReadSlab(sl))
         /\ log' = Append(log, [op |-> "copy", rd |-> sl, wr |-> sl])
    /\ idx' = idx + 1
    /\ UNCHANGED <<pc, err, srcVars, rootExists, attrs, hasArr, arrShape,
                   arrDtype, arrChunks, slices, pre, planVars, buildVars>>

\* What the command line gives for --scale, --translation, --axes, --units.
CliScales == {<<1, 1, 1>>, <<4, 4, 8>>}
CliTranslations == {<<0, 0, 0>>}
CliAxes == {<<"z", "y", "x">>}
CliUnits == {<<"nanometer", "nanometer", "nanometer">>}

\* z_root.attrs['multiscales'] = value (line 106).
SetAttr(a, key, value) ==
    [k \in DOMAIN a \cup {key} |-> IF k = key THEN value ELSE a[k]]

\* Lines 104-106, once the loop is over: build the metadata and store it
\* under the root's 'multiscales' attribute.
AttachMetadata ==
    /\ pc = "copy" /\ LoopOver(idx, slices)
    /\ \E scale \in CliScales, translation \in CliTranslations,
          axes \in CliAxes, units \in CliUnits :
         LET z_attrs == generate_multiscales_metadata(
                            ds_name, scale, translation, units, axes).value IN
         attrs' = SetAttr(attrs, "multiscales", z_attrs.multiscales)
    /\ log' = Append(log, [op |-> "attrs"])
    /\ pc' = "done"
    /\ UNCHANGED <<err, srcVars, rootExists, arrVars, slices, idx, pre,
                   planVars, buildVars>>

\* A read or a write of the copy loop, or the attribute write, raises, or
\* the process is stopped between two slabs: nothing is rolled back. With
\* the shapes of this model a slab lies in one chunk of the destination,
\* which the store replaces as a whole, so no slab is left half written.
IOFailure ==
    /\ pc = "copy"
    /\ pc' = "failed" /\ err' = "IOFailure"
    /\ UNCHANGED <<srcVars, rootExists, attrs, arrVars, slices, idx, log,
                   pre, planVars, buildVars>>

\* The conversion is run again, on the destination as the run before it,
\* completed or failed, left it.
Rerun ==
    /\ pc \in {"done", "failed"}
    /\ pc' = "ensure" /\ err' = "none"
    /\ slices' = <<>> /\ idx' = 1 /\ log' = <<>>
    /\ pre' = Snapshot
    /\ UNCHANGED <<srcVars, rootExists, attrs, arrVars, planVars, buildVars>>

CopyIdle ==
    /\ pc = "idle" /\ err = "none"
    /\ srcShape = <<0, 1, 1>> /\ srcDtype = "int8"
    /\ rootExists = FALSE /\ attrs = NoAttrs
    /\ hasArr = FALSE /\ arrShape = <<>> /\ arrDtype = "none"
    /\ arrChunks = <<>> /\ arrData = NoData
    /\ slices = <<>> /\ idx = 1 /\ log = <<>>
    /\ pre = [hasArr |-> FALSE, attrs |-> NoAttrs, arrData |-> NoData,
              arrDtype |-> "none", arrChunks |-> <<>>]

(***************************************************************************)
(* Inputs and initial states                                               *)
(***************************************************************************)
\* Axis-0 extents of the source volume, which holds at least one row.
Extents == (1 .. MaxSmallExtent) \cup {ChunkEdge, ChunkEdge + 1}
Shapes == Extents \X (1 .. MaxSide) \X {MaxSide}

\* Shapes a pre-existing array may have: the source's, or one that is
\* longer by one on the first axis.
NearShapes(shape) == {shape, <<shape[1] + 1, shape[2], shape[3]>>}

\* Chunk edges a pre-existing array of the given shape may have: 128, 64,
\* ..., and 1, 2, ... when the array has few rows.
OldChunkEdges(shape) ==
    {ChunkEdge \div d : d \in 1 .. MaxChunkDiv}
    \cup (IF shape[1] <= MaxSmallExtent + 1 THEN 1 .. MaxSmallChunk ELSE {})

\* A 'multiscales' attribute left by an earlier conversion.
OldMultiscales ==
    generate_multiscales_metadata(ds_name, <<2, 2, 2>>, <<0, 0, 0>>,
        <<"nanometer", "nanometer", "nanometer">>, <<"z", "y", "x">>).value.multiscales

\* The destination does not exist.
InitFresh ==
    /\ rootExists = FALSE /\ attrs = NoAttrs
    /\ hasArr = FALSE /\ arrShape = <<>> /\ arrDtype = "none"
    /\ arrChunks = <<>> /\ arrData = NoData

\* The destination group exists, with or without a 'multiscales'
\* attribute and with or without an array 's0'.
InitExisting ==
    /\ rootExists = TRUE
    /\ attrs \in {NoAttrs, SetAttr(NoAttrs, "multiscales", OldMultiscales)}
    /\ \/ /\ hasArr = FALSE /\ arrShape = <<>> /\ arrDtype = "none"
          /\ arrChunks = <<>> /\ arrData = NoData
       \/ /\ hasArr = TRUE
          /\ arrShape \in NearShapes(srcShape)
          /\ arrDtype \in ArrDtypes
          /\ \E e \in OldChunkEdges(arrShape) : arrChunks = <<e, e, e>>
          /\ arrData = [c \in Coords(arrShape) |-> OldData(arrShape, c)]

Init ==
    /\ PlanIdle /\ BuildIdle
    /\ pc = "ensure" /\ err = "none"
    /\ srcShape \in Shapes /\ srcDtype \in SrcDtypes
    /\ (InitFresh \/ InitExisting)
    /\ slices = <<>> /\ idx = 1 /\ log = <<>>
    /\ pre = Snapshot

Next ==
    \/ EnsureDestination
    \/ Plan
    \/ CopySlab
    \/ AttachMetadata
    \/ IOFailure
    \/ Rerun

Spec == Init /\ [][Next]_vars

PlanInit ==
    /\ BuildIdle /\ CopyIdle
    /\ \E e \in PlanExtents : planShape = <<e, 1, 1>>
    /\ planStep \in PlanSteps
    /\ planPc = "call" /\ planResult = <<>>

PlanSpec == PlanInit /\ [][PlanCall]_vars

BuildInit ==
    /\ PlanIdle /\ CopyIdle
    /\ bName \in DatasetNames
    /\ bScale \in SeqsOf(ScaleVals, MinLen, MaxLen)
    /\ bTrans \in SeqsOf(TransVals, MinLen, MaxLen)
    /\ bUnits \in SeqsOf(UnitNames, MinLen, MaxLen)
    /\ bAxes \in SeqsOf(AxisNames, MinLen, MaxLen)
    /\ bPc = "call" /\ bResult = <<>>

BuildSpec == BuildInit /\ [][BuildCall]_vars

(***************************************************************************)
(* Properties of slice_along_z_dim, under PlanSpec                         *)
(***************************************************************************)
planExtent == planShape[1]
PlanRows(k) == planResult[k].start .. planResult[k].stop - 1

\* C1: for extent > 0 and step > 0 the returned slabs partition
\* [0, extent): each has 0 <= start < stop <= extent, the first starts at 0,
\* each starts where the one before it stopped, the starts increase
\* strictly, the last stops at extent; their union is [0, extent) and they
\* are pairwise disjoint.
SlabsPartitionExtent ==
    (planPc # "call" /\ planExtent > 0 /\ planStep > 0) =>
        /\ planPc = "returned"
        /\ Len(planResult) >= 1
        /\ planResult[1].start = 0
        /\ planResult[Len(planResult)].stop = planExtent
        /\ \A k \in 1 .. Len(planResult) :
              /\ 0 <= planResult[k].start
              /\ planResult[k].start < planResult[k].stop
              /\ planResult[k].stop <= planExtent
        /\ \A k \in 1 .. Len(planResult) - 1 :
              /\ planResult[k + 1].start = planResult[k].stop
              /\ planResult[k].start < planResult[k + 1].start
        /\ UNION {PlanRows(k) : k \in 1 .. Len(planResult)} = 0 .. planExtent - 1
        /\ \A j, k \in 1 .. Len(planResult) :
              j # k => PlanRows(j) \cap PlanRows(k) = {}

\* A plan of several slabs whose last one is clipped.
SlabsPartitionWitness ==
    /\ planPc = "returned" /\ planExtent = 10 /\ planStep = 3
    /\ Len(planResult) = 4 /\ planResult[4].stop - planResult[4].start = 1

\* The sequence [k*step, min((k+1)*step, extent)) for k = 0, 1, ... while
\* k*step < extent.
ExpectedPlan(extent, step) ==
    LET n == Cardinality({k \in 0 .. extent : k * step < extent}) IN
    [k \in 1 .. n |-> Slice((k - 1) * step, Min(k * step, extent))]

\* C4: for step > 0 the result is exactly the sequence
\* [k*step, min((k+1)*step, extent)), k = 0, 1, ... while k*step < extent:
\* every slab but the last has length step, step >= extent gives the single
\* slab [0, extent), extent = 0 gives the empty list; plan(10, 3),
\* plan(5, 10) and plan(0, 4) are as the examples say.
PlanIsClippedStepSequence ==
    (planPc # "call" /\ planStep > 0) =>
        /\ planPc = "returned"
        /\ planResult = ExpectedPlan(planExtent, planStep)
        /\ \A k \in 1 .. Len(planResult) - 1 :
              planResult[k].stop - planResult[k].start = planStep
        /\ (planExtent > 0 /\ planStep >= planExtent) =>
              planResult = <<Slice(0, planExtent)>>
        /\ planExtent = 0 => planResult = <<>>
        /\ (planExtent = 10 /\ planStep = 3) =>
              planResult = <<Slice(0, 3), Slice(3, 6), Slice(6, 9), Slice(9, 10)>>
        /\ (planExtent = 5 /\ planStep = 10) => planResult = <<Slice(0, 5)>>
        /\ (planExtent = 0 /\ planStep = 4) => planResult = <<>>

\* The call plan(5, 10) has returned its single slab.
PlanIsClippedWitness ==
    /\ planPc = "returned" /\ planExtent = 5 /\ planStep = 10
    /\ planResult = <<Slice(0, 5)>>

BuildLengths == {Len(bAxes), Len(bUnits), Len(bScale), Len(bTrans)}

\* C6, as claimed: the builder fails whenever the lengths of the axis
\* names, the units, the scale and the translation are not all equal.
BuilderRejectsLengthMismatch ==
    (bPc # "call" /\ Cardinality(BuildLengths) > 1) => bPc = "raised"

\* C9: for axis names, units, scale and translation of length 3 each the
\* descriptor has 3 axis descriptors, the i-th pairing the i-th name with
\* the i-th unit and type 'space', one dataset entry with the given name as
\* path and the given scale and translation as transforms, a top-level
\* scale transform of [1.0, 1.0, 1.0] and version "0.4".
DescriptorShape ==
    (bPc # "call" /\ BuildLengths = {3}) =>
        /\ bPc = "returned"
        /\ DOMAIN bResult = {"multiscales"}
        /\ Len(bResult.multiscales) = 1
        /\ LET m == bResult.multiscales[1] IN
             /\ Len(m.axes) = 3
             /\ \A i \in 1 .. 3 :
                   m.axes[i] = [name |-> bAxes[i], type |-> "space", unit |-> bUnits[i]]
             /\ Len(m.datasets) = 1
             /\ m.datasets[1].path = bName
             /\ m.datasets[1].coordinateTransformations =
                   << [scale |-> bScale, type |-> "scale"],
                      [translation |-> bTrans, type |-> "translation"] >>
             /\ Len(m.datasets[1].coordinateTransformations[1].scale) = 3
             /\ Len(m.datasets[1].coordinateTransformations[2].translation) = 3
             /\ m.coordinateTransformations = << [scale |-> <<1, 1, 1>>, type |-> "scale"] >>
             /\ m.version = "0.4"

\* A descriptor built from three axes whose names and units differ.
DescriptorShapeWitness ==
    /\ bPc = "returned" /\ BuildLengths = {3}
    /\ bAxes = <<"z", "y", "z">> /\ bUnits = <<"nm", "nanometer", "nm">>
    /\ bScale = <<1, 4, 4>> /\ bName = "s1"

(***************************************************************************)
(* Properties of store_mrc_to_zarr, under Spec                             *)
(***************************************************************************)
CubicChunks == <<ChunkEdge, ChunkEdge, ChunkEdge>>

\* The log entries of slab copies, and the rows they wrote.
CopyIndices == {k \in 1 .. Len(log) : log[k].op = "copy"}
WriteCount(r) ==
    Cardinality({k \in CopyIndices : InRows(log[k].wr, srcShape[1], r)})
SomeSlabUnwritten == \E r \in 0 .. srcShape[1] - 1 : WriteCount(r) = 0

\* C2: after a successful run every coordinate of the source shape holds
\* the source's value in the destination array, whatever the array held
\* before.
ContentFidelity ==
    pc = "done" =>
        /\ DOMAIN arrData = Coords(srcShape)
        /\ \A c \in Coords(srcShape) : arrData[c] = SrcData(c)

\* A completed run over several slabs into an array that existed with
\* other contents and a wider element type.
ContentFidelityWitness ==
    /\ pc = "done" /\ pre.hasArr
    /\ srcShape[1] > ChunkEdge /\ srcShape[3] > 1
    /\ arrDtype # srcDtype
    /\ \E c \in Coords(srcShape) : pre.arrData[c] # arrData[c]

\* C3, as claimed: a run that failed after writing at least one but not all
\* slabs leaves no 'multiscales' key in the root attributes, also when the
\* destination is reused from an earlier run.
MetadataAbsentAfterInterrupt ==
    (/\ pc = "failed"
     /\ Cardinality(CopyIndices) >= 1
     /\ Cardinality(CopyIndices) < Len(slices)) =>
        "multiscales" \notin DOMAIN attrs

\* C3, amended: while some slab is still unwritten the root attributes are
\* those the run found, so 'multiscales' is absent if and only if it was
\* absent when the run began.
MetadataUntouchedWhileUnwritten ==
    SomeSlabUnwritten =>
        /\ attrs = pre.attrs
        /\ "multiscales" \in DOMAIN attrs <=> "multiscales" \in DOMAIN pre.attrs

\* A run into a destination without metadata failed between two slabs.
MetadataUntouchedWitness ==
    /\ pc = "failed" /\ err = "IOFailure"
    /\ Cardinality(CopyIndices) >= 1
    /\ Cardinality(CopyIndices) < Len(slices)
    /\ "multiscales" \notin DOMAIN attrs

\* This run's Ensure-Destination step is over and found an array.
FoundArray == pc # "ensure" /\ pre.hasArr

\* The run failed in require_dataset and left the destination as it was.
ConflictBeforeCopy ==
    /\ pc = "failed" /\ err = "TypeError"
    /\ log = <<>>
    /\ arrData = pre.arrData /\ attrs = pre.attrs

ChunkRowsOf(sl) ==
    IF NumRows(sl, srcShape[1]) = 0
    THEN {}
    ELSE (RowLo(sl, srcShape[1]) \div arrChunks[1])
            .. ((RowHi(sl, srcShape[1]) - 1) \div arrChunks[1])

\* C10: the slabs are written in increasing axis-0 order, each to the range
\* it was read from and once, with a step equal to the array's chunk edge
\* on axis 0: after the k-th write the rows written are exactly the prefix
\* up to the end of slab k, no row is written twice, no chunk row is
\* touched by two slabs, and the metadata is written only after the last
\* slab.
CopyOrder ==
    /\ \A k \in 1 .. Len(log) :
          IF log[k].op = "copy"
          THEN /\ k = slices[k].start \div arrChunks[1] + 1
               /\ log[k].wr = slices[k] /\ log[k].rd = log[k].wr
               /\ log[k].wr.start = (IF k = 1 THEN 0 ELSE log[k - 1].wr.stop)
               /\ log[k].wr.start < log[k].wr.stop
               /\ log[k].wr.stop <= srcShape[1]
               /\ log[k].wr.start % arrChunks[1] = 0
               /\ \/ log[k].wr.stop - log[k].wr.start = arrChunks[1]
                  \/ log[k].wr.stop = srcShape[1]
               /\ \A j \in 1 .. k - 1 :
                     /\ log[j].op = "copy"
                     /\ ChunkRowsOf(log[j].wr) \cap ChunkRowsOf(log[k].wr) = {}
          ELSE /\ k = Len(log) /\ k = Len(slices) + 1
               /\ pc = "done"
               /\ ~SomeSlabUnwritten
    /\ \A r \in 0 .. srcShape[1] - 1 :
          /\ WriteCount(r) <= 1
          /\ WriteCount(r) = 1 <=>
                (CopyIndices # {} /\ r < log[Cardinality(CopyIndices)].wr.stop)
    /\ pc = "done" => Len(log) = Len(slices) + 1 /\ log[Len(log)].op = "attrs"

\* A completed run of several slabs into an array whose chunk edge is not
\* the default one.
CopyOrderWitness ==
    /\ pc = "done" /\ Cardinality(CopyIndices) >= 3
    /\ arrChunks[1] # ChunkEdge
    /\ srcShape[1] % arrChunks[1] # 0
============================================================================
